---- MODULE Spec2Model ----
(***************************************************************************)
(* Model of the contact-information crawler:                               *)
(*   - src/src/scraper/async_engine.py : AsyncScraper (scrape, fetch_html, *)
(*     is_valid_url, enqueue_related_urls, calculate_relevance_score) and  *)
(*     the batch driver main(urls);                                        *)
(*   - src/src/scraper/scheduler.py    : RateLimitedScheduler and          *)
(*     DownloadScheduler;                                                  *)
(*   - src/src/scraper/extractors.py   : ResultAggregator.aggregate and    *)
(*     ContactInfoExtractor.extract_contact_info;                          *)
(*   - src/src/scraper/urls.py         : the Url class.                    *)
(*                                                                         *)
(* A URL string is the record of its urlparse components.  A path is the   *)
(* sequence of its lexical pieces ("/" and segment words), so that         *)
(* "/team" is <<"/", "team">>, "/" is <<"/">> and "" is <<>>.              *)
(***************************************************************************)
EXTENDS Integers, Sequences, FiniteSets, Bags, TLC

None == "None"

(***************************************************************************)
(* Bounds of the model and parameters of the program.                      *)
(***************************************************************************)
\* AsyncScraper(max_depth=3, ...): constructor parameter, small here.
max_depth == 2
\* AsyncScraper(..., max_pages_per_domain=50): constructor parameter.
max_pages_per_domain == 3
\* fetch_html(session, url, max_retries=3)
max_retries == 3
\* number of <a href> elements of one page
MaxLinks == 2
\* number of start URLs handed to main(urls)
MaxBatch == 2

(***************************************************************************)
(* URL strings.                                                            *)
(***************************************************************************)
MkUrl(s, n, p, q) == [scheme |-> s, netloc |-> n, path |-> p, query |-> q]

\* urlparse(url).netloc
Netloc(url) == url.netloc

\* urlparse(url).path
PathOf(url) == url.path

\* str.lower() on one lexical piece
LowerTok(t) ==
    CASE t = "Team"    -> "team"
      [] t = "Our"     -> "our"
      [] t = "Privacy" -> "privacy"
      [] t = "More"    -> "more"
      [] t = "A.COM"   -> "a.com"
      [] t = "HTTPS"   -> "https"
      [] t = "Jane@Example.com" -> "jane@example.com"
      [] OTHER         -> t

\* str.lower() on a sequence of pieces
Lower(s) == [i \in 1..Len(s) |-> LowerTok(s[i])]

\* urljoin(base_url, href) raises ValueError("Invalid IPv6 URL") on an href
\* whose netloc has a "[" without its "]"
UrlJoinRaises(href) == href.netloc = "["

\* urljoin(base_url, href) for the two href shapes of the model: a
\* path-absolute reference ("/team": no scheme, no netloc) is resolved against
\* the base, an absolute URL replaces the base, a network-path reference
\* ("//host/p") takes the base's scheme.
UrlJoin(base, href) ==
    IF href.netloc = "" /\ href.scheme = ""
    THEN MkUrl(base.scheme, base.netloc, href.path, href.query)
    ELSE IF href.scheme = ""
         THEN MkUrl(base.scheme, href.netloc, href.path, href.query)
         ELSE href

\* Order of the lexical pieces that follows the order of Python strings
\* ("/" < ":" < "?" < letters; "http:" < "https").
TokRank(t) ==
    CASE t = ""        -> 0
      [] t = ".pdf"    -> 1
      [] t = "/"       -> 2
      [] t = "?"       -> 3
      [] t = "A.COM"   -> 4
      [] t = "["       -> 5
      [] t = "a"       -> 6
      [] t = "a.com"   -> 7
      [] t = "b"       -> 8
      [] t = "b.org"   -> 9
      [] t = "c"       -> 10
      [] t = "http"    -> 11
      [] t = "http.cat" -> 12
      [] t = "https"   -> 13
      [] t = "jane@example.com" -> 14
      [] t = "mailto"  -> 15
      [] t = "privacy" -> 16
      [] t = "q=1"     -> 17
      [] t = "team"    -> 18
      [] OTHER         -> 19

\* the pieces of the whole URL string, in order
UrlPieces(u) ==
    <<u.scheme, u.netloc>> \o u.path \o
        (IF u.query = "" THEN <<>> ELSE <<"?", u.query>>)

RECURSIVE SeqLess(_, _)
\* lexicographic s < t
SeqLess(s, t) ==
    IF t = <<>> THEN FALSE
    ELSE IF s = <<>> THEN TRUE
    ELSE IF TokRank(Head(s)) # TokRank(Head(t))
         THEN TokRank(Head(s)) < TokRank(Head(t))
         ELSE SeqLess(Tail(s), Tail(t))

\* Python's str < str on two URL strings
UrlLess(u, v) == SeqLess(UrlPieces(u), UrlPieces(v))

(***************************************************************************)
(* The web the crawler runs against: seeds, links, fetch outcomes.         *)
(***************************************************************************)
\* start URLs as typed by the user: one without scheme, one with
Seeds == { MkUrl("", "a.com", <<>>, ""), MkUrl("https", "b.org", <<"/">>, "") }

\* the same, and a host typed without scheme whose name begins with "http"
TypedSeeds == Seeds \cup { MkUrl("", "http.cat", <<>>, "") }

\* <a href=... >text</a> elements a page may contain
LinkList ==
    << [href |-> MkUrl("", "", <<"/", "team">>, ""),          text |-> <<"Our", "Team">>],
       [href |-> MkUrl("", "", <<"/", "privacy">>, ""),       text |-> <<"Privacy">>],
       [href |-> MkUrl("https", "b.org", <<"/", "team">>, ""), text |-> <<"Team">>],
       [href |-> MkUrl("", "", <<"/", "team">>, "q=1"),       text |-> <<>>],
       [href |-> MkUrl("", "", <<"/", "a", "/", "b", "/", "c">>, ""), text |-> <<"More">>],
       [href |-> MkUrl("http", "[", <<>>, ""),                text |-> <<>>],
       [href |-> MkUrl("", "", <<"/", "team", ".pdf">>, ""),  text |-> <<>>],
       [href |-> MkUrl("mailto", "", <<"jane@example.com">>, ""), text |-> <<>>] >>

\* the <a href> elements of one document of a site whose pages draw their
\* links from the elements ix of LinkList.  Apart from an href that makes
\* urljoin raise, enqueue_related_urls puts each accepted link into the
\* priority queue on its own, so the order of the elements in the document
\* has no effect: one order per multiset is drawn
LinkSeqs(ix) ==
    UNION { { [i \in 1..n |-> LinkList[g[i]]] :
                g \in { f \in [1..n -> ix] :
                          \A i \in 1..(n - 1) : f[i] <= f[i + 1] } } :
            n \in 0..MaxLinks }

Row_withconf(k, v) == [type |-> k, value |-> v, confidence |-> 10]

\* {'type': k, 'value': v}
Row(k, v) == [type |-> k, value |-> v]

\* The sites crawled: the links their pages may hold, the entries
\* extract_contact_info may find on one page, and the start URLs the user
\* may type for them.
\* a site with keyword links, a link to another domain, a query-string
\* variant and a malformed href
SiteCrawl == [links |-> {1, 2, 3, 4, 6}, facts |-> { {} }, seeds |-> Seeds]

\* a site with a link without any relevance signal, a link to a PDF, a
\* mailto: link and a malformed href
SiteDiscovery == [links |-> {1, 5, 6, 7, 8}, facts |-> { {} }, seeds |-> Seeds]

\* a site whose pages may show one e-mail address
SiteFacts == [links |-> {1, 6},
              facts |-> { {}, { Row("email", "jane@example.com") } },
              seeds |-> Seeds]

\* a site with two keyword-free or keyword links and a malformed href, enough
\* pages to use up the page budget
SiteLive == [links |-> {1, 2, 6}, facts |-> { {} },
             seeds |-> { MkUrl("", "a.com", <<>>, "") }]

\* a small site crawled from start URLs typed in every way
SiteSeeds == [links |-> {1, 6}, facts |-> { {} }, seeds |-> TypedSeeds]

\* what `await response.text()` may give for a 200 response: the empty
\* string or a document
Bodies == { "", "html" }

\* outcome of one attempt of fetch_html: 200, gaierror, another HTTP status,
\* or a connection failure / timeout / other exception
Outcomes == {"ok", "dns", "http", "transient"}

\* the lists main may be given, made of the start URLs S
BatchInputs(S) == UNION { [1..n -> S] : n \in 1..MaxBatch }

\* session.get raises InvalidURL, a ClientError, on a URL without scheme, and
\* gethostbyname gets the empty netloc urlparse gives for such a URL: the
\* fetch of it can only fail
OutcomesFor(url) == IF url.scheme = "" THEN {"dns", "transient"} ELSE Outcomes

(***************************************************************************)
(* State.                                                                  *)
(***************************************************************************)
VARIABLES
    site,          \* the site crawled: what its pages may contain
    urls,          \* main: the batch of start URLs
    idx,           \* main: index of the start URL being crawled
    all_results,   \* main: start URL -> results
    start_url,     \* scrape: its argument
    queue,         \* scrape: the PriorityQueue, a bag of (priority, url, depth)
    results,       \* scrape: url -> page results
    seen_urls,     \* AsyncScraper.seen_urls
    pc,            \* position of the driver
    cur,           \* scrape: the dequeued (priority, url, depth)
    html,          \* scrape: what fetch_html returned
    retries,       \* fetch_html: local counter
    outcomes,      \* history: outcomes of the attempts for the current URL
    waits,         \* history: the sleeps made for the current URL
    visit_log,     \* history: URLs handed to fetch_html in this crawl, in order
    failed,        \* history: URLs of this crawl whose fetch returned None
    requeued,      \* history: URLs put on the queue after they were visited
    examined,      \* history: kinds of links the link loop has met in this crawl
    raised_urls,   \* history: start URLs whose scrape call raised
    agg_in,        \* aggregate: its argument `results`
    agg_i,         \* aggregate: index of the next result of the for loop
    agg_types,     \* aggregate: keys of `aggregated` in insertion order
    aggregated,    \* aggregate: type -> set of values
    agg_out,       \* aggregate: the returned list
    apc,           \* aggregate: position
    kind,          \* DownloadScheduler: what the caller passes as URLs, "str" or "Url"
    ds_queue,      \* DownloadScheduler.queue (deque)
    ds_visited,    \* DownloadScheduler.visited
    rl_queue,      \* RateLimitedScheduler.queue (asyncio.Queue)
    global_level,  \* RateLimitedScheduler.global_limiter: requests in its bucket
    domain_level,  \* RateLimitedScheduler.domain_limiters: the same, per domain
    spc,           \* DownloadScheduler.schedule: position
    passes,        \* schedule: passes made of `for _ in range(self.processes)`
    round_urls,    \* schedule: the list `urls` of this round
    main_get,      \* schedule: its call of get_url in progress
    tasks,         \* schedule: the submitted rate_limited_download calls
    ex_html,       \* extract_contact_info: the document it is given
    ex_raising,    \* the extractors that raise on this document
    ex_results,    \* extract_contact_info: the list `results`
    ex_ran,        \* history: the extraction passes made over the page, in order
    ex_i,          \* extract_contact_info: index in the loop over the extractors
    ex_status,     \* extract_contact_info: the dict `status`
    epc,           \* extract_contact_info: position
    url_in,        \* the strings handed to Url(...)
    url_obj,       \* the Url objects made from them
    url_eq,        \* the results of == on the objects
    url_hash,      \* the results of hash() on the objects
    upc,           \* position of the Url calls
    found_links,   \* history: the links of the pages that were downloaded
    admitted,      \* history: URLs that passed both limiters in get_url
    admission_failures  \* history: URLs a get_url call took and did not return

mainVars  == <<site, urls, idx, all_results>>
crawlVars == <<start_url, queue, results, seen_urls, cur, html>>
fetchVars == <<retries, outcomes, waits>>
histVars  == <<visit_log, failed, requeued, examined, raised_urls>>

aggVars   == <<agg_in, agg_i, agg_types, aggregated, agg_out, apc>>

schedVars == <<kind, ds_queue, ds_visited, rl_queue, global_level, domain_level,
               spc, passes, round_urls, main_get, tasks, admitted, admission_failures,
               found_links>>

exVars    == <<ex_html, ex_raising, ex_results, ex_ran, ex_i, ex_status, epc>>

\* the components modelled after the crawl, the aggregator and the scheduler
urlVars   == <<url_in, url_obj, url_eq, url_hash, upc>>

moreVars  == <<exVars, urlVars>>

\* the state of the components the crawl does not touch
otherVars == <<aggVars, schedVars, moreVars>>

\* the crawl, the aggregator and the scheduler
coreVars == <<mainVars, crawlVars, fetchVars, histVars, pc, aggVars, schedVars>>

vars == <<coreVars, moreVars>>

\* placeholders of the model for "no value yet"
NoUrl == MkUrl(None, None, <<>>, "")

NoEntry == [priority |-> 0, url |-> NoUrl, depth |-> 0]

\* fetch_html's `return None`
NoHtml == None

(***************************************************************************)
(* AsyncScraper helpers.                                                   *)
(***************************************************************************)
relevant_keywords ==
    { "our-story", "join-us", "company-info", "about-company", "employees",
      "get-in-touch", "people", "divisions", "team", "board", "contact-us",
      "directors", "leadership", "about-team", "history", "social",
      "departments", "news", "reach-us", "offices", "executives", "work-with-us",
      "awards", "directory", "company", "what-we-do", "media", "careers",
      "meet-the-team", "press", "corporate", "insights", "staff", "publications",
      "events", "blog", "support", "founder", "who-we-are", "management",
      "about-us", "mission", "locations", "values", "help", "our-team", "contact" }

HasKeyword_none(s) == FALSE

\* any(keyword in s for keyword in self.relevant_keywords); the pieces of the
\* model contain a keyword only when they are one
HasKeyword(s) == \E i \in 1..Len(s) : s[i] \in relevant_keywords

\* str.count('/')
SlashCount(p) == Cardinality({ i \in 1..Len(p) : p[i] = "/" })

MaxOf(a, b) == IF a >= b THEN a ELSE b

calculate_relevance_score(link, url) ==
    LET url_path   == Lower(PathOf(url))
        link_text  == Lower(link.text)
        path_depth == SlashCount(url_path)
    IN  (IF HasKeyword(url_path) THEN 5 ELSE 0)
      + (IF HasKeyword(link_text) THEN 3 ELSE 0)
      + MaxOf(0, 3 - path_depth)

is_valid_url_nodomain(start, url, seen) == url \notin seen

is_valid_url_noseen(start, url, seen) == Netloc(start) = Netloc(url)

is_valid_url(start, url, seen) ==
    Netloc(start) = Netloc(url) /\ url \notin seen

BudgetReached_gt(seen) == Cardinality(seen) > max_pages_per_domain

\* len(self.seen_urls) >= self.max_pages_per_domain
BudgetReached(seen) == Cardinality(seen) >= max_pages_per_domain

MarkVisited_never(seen, url) == seen

\* self.seen_urls.add(url)
MarkVisited(seen, url) == seen \cup {url}

ReturnsAtOnce_okonly(o) == o = "ok"

\* the outcomes on which the loop body of fetch_html executes a return: the
\* gaierror handler and the status-200 branch
ReturnsAtOnce(o) == o \in {"ok", "dns"}

wait_time_linear(r) == r + 1

\* wait_time = 2 ** retries
wait_time(r) == 2 ^ r

Relevant_ge(score) == score >= 0

\* if relevance_score > 0
Relevant(score) == score > 0

ChildDepth_skip(d) == d + 2

\* current_depth + 1
ChildDepth(d) == d + 1

Entry(p, u, d) == [priority |-> p, url |-> u, depth |-> d]

\* tuple comparison (priority, url, depth) < (priority, url, depth)
EntryLess(e, f) ==
    \/ e.priority < f.priority
    \/ e.priority = f.priority /\ UrlLess(e.url, f.url)
    \/ e.priority = f.priority /\ e.url = f.url /\ e.depth < f.depth

QueueMin_last(q) == CHOOSE e \in BagToSet(q) : \A f \in BagToSet(q) : ~EntryLess(e, f)

\* the entry PriorityQueue.get() returns
QueueMin(q) == CHOOSE e \in BagToSet(q) : \A f \in BagToSet(q) : ~EntryLess(f, e)

QueuePut(q, e) == q (+) SetToBag({e})

QueueRemove_keep(q, e) == q

QueueRemove(q, e) == q (-) SetToBag({e})

RECURSIVE EnqueueLinks(_, _, _, _, _)
\* the for loop of enqueue_related_urls over links[i..]; the loop ends when
\* urljoin raises
EnqueueLinks(q, links, base_url, current_depth, seen) ==
    IF links = <<>> \/ UrlJoinRaises(Head(links).href) THEN q
    ELSE LET link == Head(links)
             url  == UrlJoin(base_url, link.href)
             q1   == IF is_valid_url(base_url, url, seen)
                        /\ Relevant(calculate_relevance_score(link, url))
                     THEN QueuePut(q, Entry(100 - calculate_relevance_score(link, url),
                                            url, ChildDepth(current_depth)))
                     ELSE q
         IN  EnqueueLinks(q1, Tail(links), base_url, current_depth, seen)

\* what soup.find_all('a', href=True) may find in a document of a site with
\* the links ix; the document is parsed only past the early return of
\* enqueue_related_urls
find_all(ix, current_depth, seen) ==
    IF current_depth >= max_depth \/ BudgetReached(seen)
    THEN { <<>> }
    ELSE LinkSeqs(ix)

\* `links` is what soup.find_all('a', href=True) found in the document
enqueue_related_urls(q, links, base_url, current_depth, seen) ==
    IF current_depth >= max_depth \/ BudgetReached(seen)
    THEN q
    ELSE EnqueueLinks(q, links, base_url, current_depth, seen)

\* the for loop of enqueue_related_urls raises
LinkLoopRaises(links) == \E i \in 1..Len(links) : UrlJoinRaises(links[i].href)

\* the URLs of the entries that q2 holds more copies of than q
PutUrls(q, q2) ==
    { e.url : e \in { f \in BagToSet(q2) : CopiesIn(f, q2) > CopiesIn(f, q) } }

\* url.endswith(('.json', '.css', ..., '.pdf', '.xml')) of urls.url_filter,
\* for the extension of the model
NonHtmlExtension(url) ==
    PathOf(url) # <<>> /\ PathOf(url)[Len(PathOf(url))] = ".pdf"

\* url.startswith(('mailto',)) of urls.url_filter
IsMailto(url) == url.scheme = "mailto"

\* history only: which kinds of link the for loop of enqueue_related_urls
\* met before it ended
LinkKinds(links, base_url, current_depth, seen) ==
    IF current_depth >= max_depth \/ BudgetReached(seen)
    THEN {}
    ELSE LET U(i) == UrlJoin(base_url, links[i].href)
             I == { i \in 1..Len(links) :
                      \A j \in 1..i : ~UrlJoinRaises(links[j].href) }
             V == { i \in I : is_valid_url(base_url, U(i), seen) }
         IN  (IF \E i \in I : ~IsMailto(U(i)) /\ Netloc(U(i)) # Netloc(base_url)
              THEN {"foreign"} ELSE {})
             \cup (IF \E i \in V : calculate_relevance_score(links[i], U(i)) <= 0
                   THEN {"score0"} ELSE {})
             \cup (IF \E i \in I : NonHtmlExtension(U(i)) THEN {"ext"} ELSE {})
             \cup (IF \E i \in I : IsMailto(U(i)) THEN {"mailto"} ELSE {})

\* truthiness of what fetch_html returned
Truthy(h) == h # NoHtml /\ h # ""

\* page_results of scrape: extract_contact_info returns one status dict, which
\* scrape wraps in a list; extracted_info holds what ResultAggregator.aggregate
\* returned for the page
PageResults(url, facts) ==
    <<[url |-> url, status |-> "success", extracted_info |-> facts]>>

(***************************************************************************)
(* Initial state: main(urls) has been called.                              *)
(***************************************************************************)
\* the crawl before main(urls) is called
CrawlIdle ==
    /\ site = SiteCrawl
    /\ urls = <<>>
    /\ idx = 1
    /\ all_results = <<>>
    /\ start_url = NoUrl
    /\ queue = EmptyBag
    /\ results = <<>>
    /\ seen_urls = {}
    /\ pc = "idle"
    /\ cur = NoEntry
    /\ html = NoHtml
    /\ retries = 0
    /\ outcomes = <<>>
    /\ waits = <<>>
    /\ visit_log = <<>>
    /\ failed = {}
    /\ requeued = {}
    /\ examined = {}
    /\ raised_urls = {}

\* the aggregator before aggregate(results) is called
AggIdle ==
    /\ agg_in = <<>>
    /\ agg_i = 1
    /\ agg_types = <<>>
    /\ aggregated = <<>>
    /\ agg_out = <<>>
    /\ apc = "idle"

\* extract_contact_info has not been called
ExtractIdle ==
    /\ ex_html = [empty |-> TRUE]
    /\ ex_raising = {}
    /\ ex_results = <<>>
    /\ ex_ran = <<>>
    /\ ex_i = 1
    /\ ex_status = [status |-> None]
    /\ epc = "idle"

\* no Url object has been made
UrlIdle ==
    /\ url_in = <<>>
    /\ url_obj = <<>>
    /\ url_eq = <<>>
    /\ url_hash = <<>>
    /\ upc = "idle"

\* the components modelled besides the crawl, the aggregator and the scheduler
\* are not in use
MoreIdle == ExtractIdle /\ UrlIdle

\* number of download processes (DownloadScheduler(processes=5)), small here
processes == 2
\* config.GLOBAL_RATE_LIMIT and config.DOMAIN_RATE_LIMIT are read from the
\* environment (defaults 10 and 5); small here so that the buckets fill up
GLOBAL_RATE_LIMIT == 2
DOMAIN_RATE_LIMIT == 1
\* length of the list `initial`
MaxInitial == 3

SchedUrls ==
    { MkUrl("http", "a.com", <<"/">>, ""),
      MkUrl("https", "a.com", <<"/", "team">>, ""),
      MkUrl("http", "b.org", <<"/">>, "") }

\* the <a href> targets of the pages of the site the scheduler is run on:
\* the home page of a.com links to its team page, which links back and to
\* the home page of b.org
PageLinks(u) ==
    CASE u = MkUrl("http", "a.com", <<"/">>, "") ->
             { MkUrl("https", "a.com", <<"/", "team">>, "") }
      [] u = MkUrl("https", "a.com", <<"/", "team">>, "") ->
             { MkUrl("http", "a.com", <<"/">>, ""), MkUrl("http", "b.org", <<"/">>, "") }
      [] OTHER -> {}

SchedDomains == { Netloc(u) : u \in SchedUrls }

InitialLists == UNION { [1..n -> SchedUrls] : n \in 0..MaxInitial }

Workers == 1..processes

IdleTask == [st |-> "idle", u |-> NoUrl, got |-> NoUrl]

IdleCall == [st |-> "idle", url |-> NoUrl]

\* a DownloadScheduler that was not constructed
SchedIdle ==
    /\ kind = "str"
    /\ ds_queue = <<>>
    /\ ds_visited = {}
    /\ rl_queue = <<>>
    /\ global_level = 0
    /\ domain_level = [d \in SchedDomains |-> 0]
    /\ spc = "idle"
    /\ passes = 0
    /\ round_urls = <<>>
    /\ main_get = IdleCall
    /\ tasks = [w \in Workers |-> IdleTask]
    /\ admitted = {}
    /\ admission_failures = {}
    /\ found_links = {}

\* main(urls) has been called for a batch of start URLs of the site s
MainCalled(s) ==
    /\ AggIdle
    /\ SchedIdle
    /\ MoreIdle
    /\ site = s
    /\ urls \in BatchInputs(s.seeds)
    /\ idx = 1
    /\ all_results = <<>>
    /\ start_url = NoUrl
    /\ queue = EmptyBag
    /\ results = <<>>
    /\ seen_urls = {}
    /\ pc = "main"
    /\ cur = NoEntry
    /\ html = NoHtml
    /\ retries = 0
    /\ outcomes = <<>>
    /\ waits = <<>>
    /\ visit_log = <<>>
    /\ failed = {}
    /\ requeued = {}
    /\ examined = {}
    /\ raised_urls = {}

Init == MainCalled(SiteCrawl)

\* the first piece of the URL string
LeadingPiece(url) == IF url.scheme # "" THEN url.scheme ELSE url.netloc

\* the pieces that begin with the letters http
HttpPrefixed == {"http", "https", "http.cat"}

\* url.startswith('http'): a test on the first characters of the string,
\* whatever they belong to
StartsWithHttp(url) == LeadingPiece(url) \in HttpPrefixed

\* if not url.startswith('http'): url = 'http://' + url
DefaultScheme(url) ==
    IF StartsWithHttp(url) THEN url ELSE [url EXCEPT !.scheme = "http"]

\* d[k] = v on a dict modelled as a function
DictSet(d, k, v) == [x \in DOMAIN d \cup {k} |-> IF x = k THEN v ELSE d[x]]

(***************************************************************************)
(* main: the for loop takes the next start URL and calls scrape, which     *)
(* creates the queue with (0, start_url, 0).                               *)
(***************************************************************************)
MainNext ==
    /\ pc = "main"
    /\ idx <= Len(urls)
    /\ start_url' = DefaultScheme(urls[idx])
    /\ queue' = SetToBag({Entry(0, DefaultScheme(urls[idx]), 0)})
    /\ results' = <<>>
    /\ pc' = "loop"
    /\ visit_log' = <<>>
    /\ failed' = {}
    /\ examined' = {}
    /\ UNCHANGED <<mainVars, seen_urls, cur, html, fetchVars, requeued, raised_urls>>
    /\ UNCHANGED otherVars

\* main: the for loop is over, return all_results
MainDone ==
    /\ pc = "main"
    /\ idx > Len(urls)
    /\ pc' = "done"
    /\ UNCHANGED <<mainVars, crawlVars, fetchVars, histVars>>
    /\ UNCHANGED otherVars

(***************************************************************************)
(* scrape: one iteration of `while not queue.empty()` up to the call of    *)
(* fetch_html.                                                             *)
(***************************************************************************)
Dequeue ==
    /\ pc = "loop"
    /\ queue # EmptyBag
    /\ LET e == QueueMin(queue) IN
        /\ queue' = QueueRemove(queue, e)
        /\ IF e.depth > max_depth \/ BudgetReached(seen_urls)
           THEN UNCHANGED <<seen_urls, cur, pc, visit_log>>
           ELSE IF ~is_valid_url(start_url, e.url, seen_urls)
           THEN UNCHANGED <<seen_urls, cur, pc, visit_log>>
           ELSE /\ seen_urls' = MarkVisited(seen_urls, e.url)
                /\ cur' = e
                /\ visit_log' = Append(visit_log, e.url)
                /\ pc' = "fetch"
    /\ retries' = 0
    /\ outcomes' = <<>>
    /\ waits' = <<>>
    /\ UNCHANGED <<mainVars, start_url, results, html, failed, requeued, examined,
                   raised_urls>>
    /\ UNCHANGED otherVars

\* scrape: the queue is empty, return results; main stores them
ScrapeReturn ==
    /\ pc = "loop"
    /\ queue = EmptyBag
    /\ all_results' = DictSet(all_results, start_url, results)
    /\ idx' = idx + 1
    /\ pc' = "main"
    /\ UNCHANGED <<site, urls, crawlVars, fetchVars, histVars>>
    /\ UNCHANGED otherVars

AfterExcept_abort(i, n) == n + 1

\* the for loop of main goes on with the next start URL after the except
\* clause; i is the index of the start URL, n the length of the batch
AfterExcept(i, n) == i + 1

\* main: scrape raised; `except Exception` stores [] under the start URL
MainExcept ==
    /\ pc = "raised"
    /\ all_results' = DictSet(all_results, start_url, <<>>)
    /\ idx' = AfterExcept(idx, Len(urls))
    /\ raised_urls' = raised_urls \cup {start_url}
    /\ pc' = "main"
    /\ UNCHANGED <<site, urls, crawlVars, fetchVars, visit_log, failed, requeued,
                   examined>>
    /\ UNCHANGED otherVars

(***************************************************************************)
(* fetch_html: one pass of `while retries < max_retries`.                  *)
(***************************************************************************)
FetchAttempt ==
    /\ pc = "fetch"
    /\ retries < max_retries
    /\ \E o \in OutcomesFor(cur.url) :
        /\ outcomes' = Append(outcomes, o)
        /\ CASE ReturnsAtOnce(o) /\ o = "dns" ->
                  \* except socket.gaierror: return None
                  /\ html' = NoHtml
                  /\ pc' = "fetched"
                  /\ UNCHANGED retries
             [] ReturnsAtOnce(o) /\ o = "ok" ->
                  \* response.status == 200: return html
                  /\ \E body \in Bodies : html' = body
                  /\ pc' = "fetched"
                  /\ UNCHANGED retries
             [] OTHER ->
                  \* another status is logged, an exception is caught and
                  \* logged; both fall through to retries += 1
                  /\ retries' = retries + 1
                  /\ IF retries + 1 < max_retries
                     THEN /\ pc' = "sleep"
                          /\ UNCHANGED html
                     ELSE /\ html' = NoHtml
                          /\ pc' = "fetched"
    /\ UNCHANGED <<mainVars, start_url, queue, results, seen_urls, cur, waits, histVars>>
    /\ UNCHANGED otherVars

\* await asyncio.sleep(wait_time)
FetchSleep ==
    /\ pc = "sleep"
    /\ waits' = Append(waits, wait_time(retries))
    /\ pc' = "fetch"
    /\ UNCHANGED <<mainVars, crawlVars, retries, outcomes, histVars>>
    /\ UNCHANGED otherVars

(***************************************************************************)
(* scrape: the rest of the iteration after fetch_html returned.            *)
(***************************************************************************)
Process ==
    /\ pc = "fetched"
    /\ IF Truthy(html)
       THEN /\ \E facts \in site.facts :
                 results' = DictSet(results, cur.url, PageResults(cur.url, facts))
            /\ IF cur.depth < max_depth
               THEN \E links \in find_all(site.links, cur.depth, seen_urls) :
                      /\ queue' = enqueue_related_urls(queue, links, cur.url,
                                                       cur.depth, seen_urls)
                      /\ examined' = examined \cup
                                        LinkKinds(links, cur.url, cur.depth, seen_urls)
                      \* an exception of the link loop leaves scrape
                      /\ pc' = IF LinkLoopRaises(links) THEN "raised" ELSE "loop"
               ELSE /\ pc' = "loop"
                    /\ UNCHANGED <<queue, examined>>
            /\ UNCHANGED failed
       ELSE /\ failed' = IF html = NoHtml THEN failed \cup {cur.url} ELSE failed
            /\ pc' = "loop"
            /\ UNCHANGED <<results, queue, examined>>
    /\ requeued' = requeued \cup (PutUrls(queue, queue') \cap seen_urls)
    /\ html' = NoHtml
    /\ cur' = NoEntry
    /\ retries' = 0
    /\ outcomes' = <<>>
    /\ waits' = <<>>
    /\ UNCHANGED <<mainVars, start_url, seen_urls, visit_log, raised_urls>>
    /\ UNCHANGED otherVars

Next ==
    \/ MainNext
    \/ MainDone
    \/ Dequeue
    \/ ScrapeReturn
    \/ MainExcept
    \/ FetchAttempt
    \/ FetchSleep
    \/ Process

Spec == Init /\ [][Next]_vars

\* main(urls) on a site with links that link discovery has to drop
InitDiscovery == MainCalled(SiteDiscovery)

SpecDiscovery == InitDiscovery /\ [][Next]_vars

\* main(urls) on a site whose pages show contact facts
InitFacts == MainCalled(SiteFacts)

SpecFacts == InitFacts /\ [][Next]_vars

\* the crawl of the small site from start URLs typed in every way
InitSeeds == MainCalled(SiteSeeds)

SpecSeeds == InitSeeds /\ [][Next]_vars

\* The crawl under the scheduling of asyncio.run: the event loop resumes the
\* one coroutine of main whenever the awaited sleep, request (timeout=30) or
\* queue operation completes, so a step that stays possible is taken.
InitLive == MainCalled(SiteLive)

SpecLive == InitLive /\ [][Next]_vars /\ WF_vars(Next)

(***************************************************************************)
(* ResultAggregator.aggregate (extractors.py).  Confidences are in tenths. *)
(***************************************************************************)
\* length of the list handed to aggregate
MaxFacts == 3

\* what the extractors hand over: well-formed facts, the 'not_found'
\* placeholder of safe_extract, a bare string, a dict without 'value'
FactUniverse ==
    [type : {"email", "name"},
     value : {"jane@example.com", "Jane@Example.com", "not_found"},
     confidence : {6, 9}]
    \cup { [str |-> "x"] } \cup { [type |-> "email"] }

FactSeqs == UNION { [1..n -> FactUniverse] : n \in 0..MaxFacts }

\* isinstance(result, str)
IsStr(r) == "str" \in DOMAIN r

\* isinstance(result, dict) and 'type' in result and 'value' in result
WellFormed(r) == "type" \in DOMAIN r /\ "value" \in DOMAIN r

\* the results the for loop does not `continue` on
Counted(r) == ~IsStr(r) /\ WellFormed(r) /\ r.value # "not_found"

AddValue_last(agg, result_type, value) == DictSet(agg, result_type, {value})

AddValue_fold(agg, result_type, value) ==
    DictSet(agg, result_type,
            (IF result_type \in DOMAIN agg THEN agg[result_type] ELSE {})
                \cup {LowerTok(value)})

\* if result_type not in aggregated: aggregated[result_type] = set()
\* aggregated[result_type].add(value)
AddValue(agg, result_type, value) ==
    DictSet(agg, result_type,
            (IF result_type \in DOMAIN agg THEN agg[result_type] ELSE {})
                \cup {value})

RECURSIVE Aggregated(_, _)
\* the dict `aggregated` after the for loop of aggregate has run over the
\* list rs, starting from the dict agg
Aggregated(rs, agg) ==
    IF rs = <<>> THEN agg
    ELSE Aggregated(Tail(rs),
                    IF Counted(Head(rs))
                    THEN AddValue(agg, Head(rs).type, Head(rs).value)
                    ELSE agg)

\* the orders in which a Python set may be iterated
Perms(S) ==
    { f \in [1..Cardinality(S) -> S] : \A i, j \in DOMAIN f : f[i] = f[j] => i = j }

RECURSIVE OutLists(_, _)
\* [{'type': k, 'value': v} for k, values in aggregated.items() for v in values]
OutLists(types, agg) ==
    IF types = <<>> THEN { <<>> }
    ELSE { [i \in 1..Len(p) |-> Row(Head(types), p[i])] \o rest :
              p \in Perms(agg[Head(types)]), rest \in OutLists(Tail(types), agg) }

AggInit ==
    /\ CrawlIdle
    /\ SchedIdle
    /\ MoreIdle
    /\ agg_in \in FactSeqs
    /\ agg_i = 1
    /\ agg_types = <<>>
    /\ aggregated = <<>>
    /\ agg_out = <<>>
    /\ apc = "loop"

\* one pass of `for result in results`
AggStep ==
    /\ apc = "loop"
    /\ agg_i <= Len(agg_in)
    /\ LET result == agg_in[agg_i] IN
        IF ~Counted(result)
        THEN UNCHANGED <<agg_types, aggregated>>
        ELSE LET result_type == result.type
                 value       == result.value
             IN  /\ agg_types' = IF result_type \notin DOMAIN aggregated
                                 THEN Append(agg_types, result_type)
                                 ELSE agg_types
                 /\ aggregated' = AddValue(aggregated, result_type, value)
    /\ agg_i' = agg_i + 1
    /\ UNCHANGED <<agg_in, agg_out, apc>>
    /\ UNCHANGED <<mainVars, crawlVars, fetchVars, histVars, pc, schedVars, moreVars>>

\* the return statement
AggReturn ==
    /\ apc = "loop"
    /\ agg_i > Len(agg_in)
    /\ agg_out' \in OutLists(agg_types, aggregated)
    /\ apc' = "done"
    /\ UNCHANGED <<agg_in, agg_i, agg_types, aggregated>>
    /\ UNCHANGED <<mainVars, crawlVars, fetchVars, histVars, pc, schedVars, moreVars>>

AggNext == AggStep \/ AggReturn

SpecAgg == AggInit /\ [][AggNext]_vars

(***************************************************************************)
(* RateLimitedScheduler and DownloadScheduler (scheduler.py).              *)
(*                                                                         *)
(* An AsyncLimiter is a leaky bucket: acquire waits until the bucket has   *)
(* room and then adds the request; the bucket drains with time.  acquire   *)
(* never raises TimeoutError, so the handler of get_url (lines 55-58) has  *)
(* no transition.  The calls submitted to the executor are modelled as     *)
(* running concurrently against the one RateLimitedScheduler of the        *)
(* DownloadScheduler.                                                      *)
(***************************************************************************)
\* DownloadScheduler(callback, initial=...) has been constructed with a list
\* of URL strings (module docstring) or of Url objects (ScraperEngine)
SchedInit ==
    /\ CrawlIdle
    /\ AggIdle
    /\ MoreIdle
    /\ kind \in {"str", "Url"}
    /\ ds_queue \in InitialLists
    /\ ds_visited = {}
    /\ rl_queue = <<>>
    /\ global_level = 0
    /\ domain_level = [d \in SchedDomains |-> 0]
    /\ spc = "start"
    /\ passes = 0
    /\ round_urls = <<>>
    /\ main_get = IdleCall
    /\ tasks = [w \in Workers |-> IdleTask]
    /\ admitted = {}
    /\ admission_failures = {}
    /\ found_links = {}

\* extract_domain(url) is urlparse(url).netloc: urlparse raises
\* AttributeError on an object that is not a str (a Url has no decode)
ExtractDomainRaises(knd) == knd = "Url"

\* url.url in the log messages of download_complete raises AttributeError on
\* a str
UrlAttrRaises(knd) == knd = "str"

\* schedule: hand the initial URLs to the rate limiter, clear the deque
SchedStart ==
    /\ spc = "start"
    /\ rl_queue' = rl_queue \o ds_queue
    /\ ds_queue' = <<>>
    /\ spc' = "collect"
    /\ passes' = 0
    /\ round_urls' = <<>>
    /\ UNCHANGED <<kind, ds_visited, global_level, domain_level, main_get, tasks,
                   admitted, admission_failures>>
    /\ UNCHANGED <<mainVars, crawlVars, fetchVars, histVars, pc, aggVars, moreVars,
                   found_links>>

\* get_url called by schedule: url = await self.queue.get() (waits while the
\* queue is empty) and domain = self.extract_domain(url)
MainGetTake ==
    /\ spc = "collect"
    /\ passes < processes
    /\ main_get.st = "idle"
    /\ rl_queue # <<>>
    /\ rl_queue' = Tail(rl_queue)
    /\ IF ExtractDomainRaises(kind)
       THEN /\ spc' = "crashed"
            /\ admission_failures' = admission_failures \cup {Head(rl_queue)}
            /\ UNCHANGED main_get
       ELSE /\ main_get' = [st |-> "global", url |-> Head(rl_queue)]
            /\ UNCHANGED <<spc, admission_failures>>
    /\ UNCHANGED <<kind, ds_queue, ds_visited, global_level, domain_level, passes,
                   round_urls, tasks, admitted>>
    /\ UNCHANGED <<mainVars, crawlVars, fetchVars, histVars, pc, aggVars, moreVars,
                   found_links>>

\* async with self.global_limiter
MainAcquireGlobal ==
    /\ main_get.st = "global"
    /\ global_level < GLOBAL_RATE_LIMIT
    /\ global_level' = global_level + 1
    /\ main_get' = [main_get EXCEPT !.st = "domain"]
    /\ UNCHANGED <<kind, ds_queue, ds_visited, rl_queue, domain_level, spc, passes,
                   round_urls, tasks, admitted, admission_failures>>
    /\ UNCHANGED <<mainVars, crawlVars, fetchVars, histVars, pc, aggVars, moreVars,
                   found_links>>

\* async with self.domain_limiters[domain]: return url; then schedule's
\* `if url and url not in self.visited`
MainAcquireDomain ==
    /\ main_get.st = "domain"
    /\ domain_level[Netloc(main_get.url)] < DOMAIN_RATE_LIMIT
    /\ domain_level' = [domain_level EXCEPT ![Netloc(main_get.url)] = @ + 1]
    /\ admitted' = admitted \cup {main_get.url}
    /\ IF main_get.url \notin ds_visited
       THEN /\ round_urls' = Append(round_urls, main_get.url)
            /\ ds_visited' = ds_visited \cup {main_get.url}
       ELSE UNCHANGED <<round_urls, ds_visited>>
    /\ passes' = passes + 1
    /\ main_get' = IdleCall
    /\ UNCHANGED <<kind, ds_queue, rl_queue, global_level, spc, tasks,
                   admission_failures>>
    /\ UNCHANGED <<mainVars, crawlVars, fetchVars, histVars, pc, aggVars, moreVars,
                   found_links>>

\* schedule after the for loop: `if not urls` (continue or break), else
\* submit one rate_limited_download per URL of the round
SchedCheck ==
    /\ spc = "collect"
    /\ passes = processes
    /\ IF round_urls = <<>>
       THEN /\ spc' = IF ds_queue # <<>> THEN "collect" ELSE "finished"
            /\ passes' = 0
            /\ UNCHANGED tasks
       ELSE /\ tasks' = [w \in Workers |->
                           IF w <= Len(round_urls)
                           THEN [st |-> "submitted", u |-> round_urls[w], got |-> NoUrl]
                           ELSE IdleTask]
            /\ spc' = "wait"
            /\ UNCHANGED passes
    /\ UNCHANGED <<kind, ds_queue, ds_visited, rl_queue, global_level, domain_level,
                   round_urls, main_get, admitted, admission_failures>>
    /\ UNCHANGED <<mainVars, crawlVars, fetchVars, histVars, pc, aggVars, moreVars,
                   found_links>>

\* rate_limited_download: await self.rate_limiter.add_url(url)
WAdd(w) ==
    /\ tasks[w].st = "submitted"
    /\ rl_queue' = Append(rl_queue, tasks[w].u)
    /\ tasks' = [tasks EXCEPT ![w].st = "take"]
    /\ UNCHANGED <<kind, ds_queue, ds_visited, global_level, domain_level, spc, passes,
                   round_urls, main_get, admitted, admission_failures>>
    /\ UNCHANGED <<mainVars, crawlVars, fetchVars, histVars, pc, aggVars, moreVars,
                   found_links>>

\* rate_limited_download: get_url up to extract_domain
WGetTake(w) ==
    /\ tasks[w].st = "take"
    /\ rl_queue # <<>>
    /\ rl_queue' = Tail(rl_queue)
    /\ IF ExtractDomainRaises(kind)
       THEN /\ tasks' = [tasks EXCEPT ![w].st = "failed"]
            /\ admission_failures' = admission_failures \cup {Head(rl_queue)}
       ELSE /\ tasks' = [tasks EXCEPT ![w].st = "global", ![w].got = Head(rl_queue)]
            /\ UNCHANGED admission_failures
    /\ UNCHANGED <<kind, ds_queue, ds_visited, global_level, domain_level, spc, passes,
                   round_urls, main_get, admitted>>
    /\ UNCHANGED <<mainVars, crawlVars, fetchVars, histVars, pc, aggVars, moreVars,
                   found_links>>

WAcquireGlobal(w) ==
    /\ tasks[w].st = "global"
    /\ global_level < GLOBAL_RATE_LIMIT
    /\ global_level' = global_level + 1
    /\ tasks' = [tasks EXCEPT ![w].st = "domain"]
    /\ UNCHANGED <<kind, ds_queue, ds_visited, rl_queue, domain_level, spc, passes,
                   round_urls, main_get, admitted, admission_failures>>
    /\ UNCHANGED <<mainVars, crawlVars, fetchVars, histVars, pc, aggVars, moreVars,
                   found_links>>

\* get_url returns the URL; `if rate_limited_url:` holds for a URL
WAcquireDomain(w) ==
    /\ tasks[w].st = "domain"
    /\ domain_level[Netloc(tasks[w].got)] < DOMAIN_RATE_LIMIT
    /\ domain_level' = [domain_level EXCEPT ![Netloc(tasks[w].got)] = @ + 1]
    /\ admitted' = admitted \cup {tasks[w].got}
    /\ tasks' = [tasks EXCEPT ![w].st = "download"]
    /\ UNCHANGED <<kind, ds_queue, ds_visited, rl_queue, global_level, spc, passes,
                   round_urls, main_get, admission_failures>>
    /\ UNCHANGED <<mainVars, crawlVars, fetchVars, histVars, pc, aggVars, moreVars,
                   found_links>>

\* download_with_rate_limit(rate_limited_url, ...): renders the page and
\* returns None (it has no return statement), or raises
WDownload(w) ==
    /\ tasks[w].st = "download"
    /\ \/ /\ tasks' = [tasks EXCEPT ![w].st = "done"]
          /\ found_links' = found_links \cup PageLinks(tasks[w].got)
       \/ /\ tasks' = [tasks EXCEPT ![w].st = "failed"]
          /\ UNCHANGED found_links
    /\ UNCHANGED <<kind, ds_queue, ds_visited, rl_queue, global_level, domain_level,
                   spc, passes, round_urls, main_get, admitted, admission_failures>>
    /\ UNCHANGED <<mainVars, crawlVars, fetchVars, histVars, pc, aggVars, moreVars>>

\* download_complete(future, url) for a completed future.  future.result()
\* raises, or is None and len(html) raises TypeError: either way the except
\* branch runs (the else branch needs a str result, which no future has) and
\* formats url.url into its message.
Complete(w) ==
    /\ spc = "wait"
    /\ tasks[w].st \in {"done", "failed"}
    /\ IF UrlAttrRaises(kind)
       THEN /\ spc' = "crashed"
            /\ tasks' = [tasks EXCEPT ![w].st = "reported"]
            /\ UNCHANGED <<passes, round_urls>>
       ELSE LET t2 == [tasks EXCEPT ![w].st = "reported"] IN
            IF \A x \in Workers : t2[x].st \in {"reported", "idle"}
            THEN /\ tasks' = [x \in Workers |-> IdleTask]
                 /\ spc' = "collect"
                 /\ passes' = 0
                 /\ round_urls' = <<>>
            ELSE /\ tasks' = t2
                 /\ UNCHANGED <<spc, passes, round_urls>>
    /\ UNCHANGED <<kind, ds_queue, ds_visited, rl_queue, global_level, domain_level,
                   main_get, admitted, admission_failures>>
    /\ UNCHANGED <<mainVars, crawlVars, fetchVars, histVars, pc, aggVars, moreVars,
                   found_links>>

\* time passes: the global bucket drains
LeakGlobal ==
    /\ spc \in {"collect", "wait", "crashed"}
    /\ global_level > 0
    /\ global_level' = global_level - 1
    /\ UNCHANGED <<kind, ds_queue, ds_visited, rl_queue, domain_level, spc, passes,
                   round_urls, main_get, tasks, admitted, admission_failures>>
    /\ UNCHANGED <<mainVars, crawlVars, fetchVars, histVars, pc, aggVars, moreVars,
                   found_links>>

\* time passes: the bucket of one domain drains
LeakDomain(d) ==
    /\ spc \in {"collect", "wait", "crashed"}
    /\ domain_level[d] > 0
    /\ domain_level' = [domain_level EXCEPT ![d] = @ - 1]
    /\ UNCHANGED <<kind, ds_queue, ds_visited, rl_queue, global_level, spc, passes,
                   round_urls, main_get, tasks, admitted, admission_failures>>
    /\ UNCHANGED <<mainVars, crawlVars, fetchVars, histVars, pc, aggVars, moreVars,
                   found_links>>

SchedNext ==
    \/ SchedStart
    \/ MainGetTake
    \/ MainAcquireGlobal
    \/ MainAcquireDomain
    \/ SchedCheck
    \/ \E w \in Workers : WAdd(w)
    \/ \E w \in Workers : WGetTake(w)
    \/ \E w \in Workers : WAcquireGlobal(w)
    \/ \E w \in Workers : WAcquireDomain(w)
    \/ \E w \in Workers : WDownload(w)
    \/ \E w \in Workers : Complete(w)
    \/ LeakGlobal
    \/ \E d \in SchedDomains : LeakDomain(d)

SpecSched == SchedInit /\ [][SchedNext]_vars

\* The scheduler when every flow that can go on does go on: the event loop
\* and the pool run each call that is not waiting, and time passes.
SpecSchedLive == SchedInit /\ [][SchedNext]_vars /\ WF_vars(SchedNext)

(***************************************************************************)
(* ContactInfoExtractor.extract_contact_info (extractors.py).              *)
(*                                                                         *)
(* A content (the page text, str(meta), an anchor text, the text of a      *)
(* contextual element) is modelled by the contact mentions it holds and by *)
(* whether it is shorter than MIN_QUERY_LENGTH.  An extractor finds the    *)
(* mentions of its own type in a content, or raises.  vCard and JSON-LD    *)
(* blocks are left out: the pages of the model have none.                  *)
(***************************************************************************)
\* the extractors ContactInfoExtractor.__init__ registers besides 'contextual'
ExtractorNames == {"email", "name", "phone", "title"}

\* what a page may say about a contact
Mentions ==
    { Row("email", "jane@example.com"), Row("name", "Jane Doe"),
      Row("phone", "555-0100"), Row("title", "CEO") }

\* a str of MIN_QUERY_LENGTH characters or more that holds the mentions S
Content(S) == [short |-> FALSE, mentions |-> S]

\* a str shorter than MIN_QUERY_LENGTH, such as '' or the '{}' of an empty meta
ShortContent == [short |-> TRUE, mentions |-> {}]

\* <a href="mailto:jane@example.com">
MailtoJane == MkUrl("mailto", "", <<"jane@example.com">>, "")

\* parsed_content['links']: the anchors of the page, text and href
LinkLists ==
    { <<>>,
      <<[text |-> ShortContent, href |-> MailtoJane]>>,
      <<[text |-> Content({Row("email", "jane@example.com")}), href |-> MailtoJane]>>,
      <<[text |-> Content({}), href |-> MkUrl("", "", <<"/", "team">>, "")]>> }

\* the mentions the anchors of a page show
LinkMentions(links) == UNION { links[i].text.mentions : i \in 1..Len(links) }

\* what find_contextual_elements may return for a page whose text holds the
\* mentions T: no element, or one element with some of them
ElementLists(T) == { <<>> } \cup { <<Content(S)>> : S \in SUBSET T }

\* a document: soup.get_text() holds the text of every element and anchor
HtmlPages ==
    UNION { { [empty |-> FALSE, text |-> Content(T), meta |-> ShortContent,
               links |-> L, elements |-> E] :
              L \in { l \in LinkLists : LinkMentions(l) \subseteq T },
              E \in ElementLists(T) } :
            T \in SUBSET Mentions }

\* html == ''
EmptyHtml ==
    [empty |-> TRUE, text |-> ShortContent, meta |-> ShortContent,
     links |-> <<>>, elements |-> <<>>]

\* the extractors that raise on this page: none or one
RaisingSets == { {} } \cup { {x} : x \in ExtractorNames \cup {"contextual"} }

\* EmailExtractor.extract, FullNameExtractor.extract, PhoneExtractor.extract
\* and TitleExtractor.extract: one {'type', 'value'} dict per match
Found(name, content) == { m \in content.mentions : m.type = name }

RECURSIVE SetToSeq(_)
\* a list of the elements of S
SetToSeq(S) ==
    IF S = {} THEN <<>>
    ELSE LET x == CHOOSE y \in S : TRUE IN <<x>> \o SetToSeq(S \ {x})

RECURSIVE Chain(_)
\* the concatenation of a list of lists
Chain(ss) == IF ss = <<>> THEN <<>> ELSE Head(ss) \o Chain(Tail(ss))

\* safe_extract: the placeholder for a short content; on an exception
\* `return content`, a str, whose characters the caller's results.extend()
\* then appends one by one (one character stands for them)
safe_extract(name, content, raising) ==
    IF content.short THEN <<Row(name, "not_found")>>
    ELSE IF name \in raising THEN <<[str |-> "x"]>>
    ELSE SetToSeq(Found(name, content))

\* href[7:] of a mailto: href
AfterMailto(href) == href.path[1]

MailtoPromoted_none(name, link) == <<>>

\* if isinstance(extractor, EmailExtractor) and link['href'].startswith('mailto:'):
\*     results.append({'type': 'email', 'value': link['href'][7:], 'confidence': 1.0})
MailtoPromoted(name, link) ==
    IF name = "email" /\ IsMailto(link.href)
    THEN <<[type |-> "email", value |-> AfterMailto(link.href), confidence |-> 10]>>
    ELSE <<>>

\* extract_from_parsed_content: safe_extract over the text, the meta and
\* each anchor text, and the promotion of mailto: hrefs
extract_from_parsed_content(name, parsed_content, raising) ==
    safe_extract(name, parsed_content.text, raising)
    \o safe_extract(name, parsed_content.meta, raising)
    \o Chain([i \in 1..Len(parsed_content.links) |->
                safe_extract(name, parsed_content.links[i].text, raising)
                \o MailtoPromoted(name, parsed_content.links[i])])

\* for extractor_name in ['email', 'name', 'phone', 'title'] of
\* ContextualExtractor.extract_from_element
ElementOrder == <<"email", "name", "phone", "title">>

\* ContextualExtractor.extract raises when the document cannot be handled or
\* when an extractor it calls on the text of an element raises:
\* extract_from_element calls extractor.extract, not safe_extract
ContextualRaises(page, raising) ==
    \/ "contextual" \in raising
    \/ page.elements # <<>> /\ raising \cap ExtractorNames # {}

\* extract_from_element: {'type', 'value'} of each item the four extractors
\* find in the text of the element
extract_from_element(element) ==
    Chain([i \in 1..Len(ElementOrder) |-> SetToSeq(Found(ElementOrder[i], element))])

\* ContextualExtractor.extract when it does not raise
ContextualResults(page) ==
    Chain([i \in 1..Len(page.elements) |-> extract_from_element(page.elements[i])])

\* for extractor_name in ['email', 'name', 'title'] of extract_contact_info
PageLevelOrder == <<"email", "name", "title">>

\* valid_results = [r for r in results if isinstance(r, dict)
\*                  and 'type' in r and 'value' in r]
ValidResults(rs) == SelectSeq(rs, LAMBDA r : ~IsStr(r) /\ WellFormed(r))

\* the rows ResultAggregator.aggregate returns for the list rs, as a set
AggregatedRows(rs) ==
    LET agg == Aggregated(rs, <<>>)
    IN  UNION { { Row(k, v) : v \in agg[k] } : k \in DOMAIN agg }

\* status['extracted_info'] of a document, computed in one go
ExtractedInfo(page, raising) ==
    AggregatedRows(ValidResults(
        (IF ContextualRaises(page, raising) THEN <<>> ELSE ContextualResults(page))
        \o Chain([i \in 1..Len(PageLevelOrder) |->
                    extract_from_parsed_content(PageLevelOrder[i], page, raising)])))

\* the status dict at the start of extract_contact_info
NewStatus == [status |-> "success", warnings |-> <<>>, extracted_info |-> {}]

\* extract_contact_info(url, html) has been called
ExtractInit ==
    /\ CrawlIdle
    /\ AggIdle
    /\ SchedIdle
    /\ UrlIdle
    /\ ex_html \in HtmlPages \cup {EmptyHtml}
    /\ ex_raising \in RaisingSets
    /\ ex_results = <<>>
    /\ ex_ran = <<>>
    /\ ex_i = 1
    /\ ex_status = NewStatus
    /\ epc = "start"

\* if not html: the warning and the early return
ExEmptyHtml ==
    /\ epc = "start"
    /\ ex_html.empty
    /\ ex_status' = [ex_status EXCEPT !.warnings = Append(@, "Empty HTML content")]
    /\ epc' = "done"
    /\ UNCHANGED <<ex_html, ex_raising, ex_results, ex_ran, ex_i>>
    /\ UNCHANGED <<coreVars, urlVars>>

\* html_parser.parse(html) and the try block of the contextual extractor
ExContextual ==
    /\ epc = "start"
    /\ ~ex_html.empty
    /\ IF ContextualRaises(ex_html, ex_raising)
       THEN /\ ex_status' = [ex_status EXCEPT
                               !.warnings = Append(@, "Contextual Extraction failed")]
            /\ UNCHANGED ex_results
       ELSE /\ ex_results' = ex_results \o ContextualResults(ex_html)
            /\ UNCHANGED ex_status
    /\ ex_ran' = Append(ex_ran, "contextual")
    /\ ex_i' = 1
    /\ epc' = "loop"
    /\ UNCHANGED <<ex_html, ex_raising>>
    /\ UNCHANGED <<coreVars, urlVars>>

\* one pass of `for extractor_name in ['email', 'name', 'title']`; nothing
\* extract_from_parsed_content calls raises, so the except branch of the
\* pass has no transition
ExExtractor ==
    /\ epc = "loop"
    /\ ex_i <= Len(PageLevelOrder)
    /\ LET extractor_name == PageLevelOrder[ex_i] IN
        /\ ex_results' = ex_results
               \o extract_from_parsed_content(extractor_name, ex_html, ex_raising)
        /\ ex_ran' = Append(ex_ran, extractor_name)
    /\ ex_i' = ex_i + 1
    /\ UNCHANGED <<ex_html, ex_raising, ex_status, epc>>
    /\ UNCHANGED <<coreVars, urlVars>>

\* valid_results, aggregate and `return status`
ExReturn ==
    /\ epc = "loop"
    /\ ex_i > Len(PageLevelOrder)
    /\ ex_status' = [ex_status EXCEPT
                       !.extracted_info = AggregatedRows(ValidResults(ex_results))]
    /\ epc' = "done"
    /\ UNCHANGED <<ex_html, ex_raising, ex_results, ex_ran, ex_i>>
    /\ UNCHANGED <<coreVars, urlVars>>

ExtractNext == ExEmptyHtml \/ ExContextual \/ ExExtractor \/ ExReturn

SpecExtract == ExtractInit /\ [][ExtractNext]_vars

(***************************************************************************)
(* The Url class (urls.py).  A URL string is the record of its urlparse    *)
(* components, here with the fragment.                                     *)
(***************************************************************************)
MkUrlF(s, n, p, q, f) ==
    [scheme |-> s, netloc |-> n, path |-> p, query |-> q, fragment |-> f]

\* the strings handed to Url(...): variants of one page in scheme, case,
\* query string and fragment, other pages, and a string without netloc
UrlStrings ==
    { MkUrlF("http", "a.com", <<>>, "", ""),
      MkUrlF("https", "a.com", <<>>, "", ""),
      MkUrlF("https", "a.com", <<>>, "q=1", ""),
      MkUrlF("HTTPS", "A.COM", <<"/", "Team">>, "", "top"),
      MkUrlF("http", "a.com", <<"/", "team">>, "", ""),
      MkUrlF("http", "a.com", <<"/">>, "", ""),
      MkUrlF("http", "b.org", <<>>, "", ""),
      MkUrlF("", "", <<"a.com">>, "", "") }

\* url.lower() on the whole string
LowerUrl(u) ==
    MkUrlF(LowerTok(u.scheme), LowerTok(u.netloc), Lower(u.path),
           LowerTok(u.query), LowerTok(u.fragment))

\* Url.__init__ raises ValueError: `if not parsed.netloc`
UrlInitRaises(u) == LowerUrl(u).netloc = ""

\* the object Url(u): its attribute url
NewUrl(u) == [url |-> LowerUrl(u)]

Normalized_keepscheme(self) ==
    MkUrlF(self.url.scheme, self.url.netloc, self.url.path, "", "")

\* Url.normalized: f'http://{parsed.netloc}{parsed.path}'
Normalized(self) == MkUrlF("http", self.url.netloc, self.url.path, "", "")

\* Url.__eq__
UrlEq(self, other) == Normalized(self) = Normalized(other)

\* Url.__hash__: hash(self.normalized()); the hash of a str is taken as
\* free of collisions on the strings of the model
UrlHash(self) == <<"hash", Normalized(self)>>

\* three calls Url(a), Url(b), Url(c) are about to be made
UrlInit ==
    /\ CrawlIdle
    /\ AggIdle
    /\ SchedIdle
    /\ ExtractIdle
    /\ url_in \in [1..3 -> UrlStrings]
    /\ url_obj = <<>>
    /\ url_eq = <<>>
    /\ url_hash = <<>>
    /\ upc = "start"

\* Url(a), Url(b), Url(c): the three objects, or the ValueError of the first
\* string that is not a complete URL
UrlNew ==
    /\ upc = "start"
    /\ IF \E i \in 1..3 : UrlInitRaises(url_in[i])
       THEN /\ upc' = "raised"
            /\ UNCHANGED url_obj
       ELSE /\ url_obj' = [i \in 1..3 |-> NewUrl(url_in[i])]
            /\ upc' = "made"
    /\ UNCHANGED <<url_in, url_eq, url_hash>>
    /\ UNCHANGED <<coreVars, exVars>>

\* x == y and hash(x) for the objects made
UrlCompare ==
    /\ upc = "made"
    /\ url_eq' = [i \in 1..3 |-> [j \in 1..3 |-> UrlEq(url_obj[i], url_obj[j])]]
    /\ url_hash' = [i \in 1..3 |-> UrlHash(url_obj[i])]
    /\ upc' = "done"
    /\ UNCHANGED <<url_in, url_obj>>
    /\ UNCHANGED <<coreVars, exVars>>

UrlNext == UrlNew \/ UrlCompare

SpecUrl == UrlInit /\ [][UrlNext]_vars

(***************************************************************************)
(* Properties of the crawl (AsyncScraper), checked under Spec.             *)
(***************************************************************************)
InFetch == pc \in {"fetch", "sleep", "fetched"}

Count(seq, x) == Cardinality({ i \in 1..Len(seq) : seq[i] = x })

SeenOfDomain(d) == { u \in seen_urls : Netloc(u) = d }

\* C1: at every point during and after scrape, the number of URLs marked
\* visited for the crawled domain is at most max_pages_per_domain.
C1_PageBudget ==
    start_url # NoUrl =>
        Cardinality(SeenOfDomain(Netloc(start_url))) <= max_pages_per_domain

\* the budget is exhausted while candidates are still queued
C1_Witness ==
    /\ pc = "loop"
    /\ queue # EmptyBag
    /\ Cardinality(SeenOfDomain(Netloc(start_url))) = max_pages_per_domain

\* C2: across one crawl no URL is handed to the fetcher more than once, also
\* when it was put on the queue several times before its first visit.
C2_VisitedOnce ==
    \A i, j \in 1..Len(visit_log) : visit_log[i] = visit_log[j] => i = j

\* a visited URL still has an entry on the queue (it was enqueued more than
\* once before its first visit) while a later URL is being fetched
C2_Witness ==
    /\ pc = "fetch"
    /\ \E e \in BagToSet(queue) :
          \E i \in 1..(Len(visit_log) - 1) : visit_log[i] = e.url

\* C3: every URL on the queue and every URL fetched by scrape(start_url) has
\* the netloc of start_url.
C3_SameDomain ==
    /\ \A e \in BagToSet(queue) : Netloc(e.url) = Netloc(start_url)
    /\ \A i \in 1..Len(visit_log) : Netloc(visit_log[i]) = Netloc(start_url)

\* a page with a link to another domain was processed and discovered links
\* are queued
C3_Witness ==
    /\ "foreign" \in examined
    /\ \E e \in BagToSet(queue) : e.depth > 0

\* C4: a DNS failure ends fetch_html at once: it is the last attempt for the
\* URL, the result is None and no sleep follows it.
C4_DnsNoRetry ==
    \A i \in 1..Len(outcomes) :
        outcomes[i] = "dns" =>
            /\ i = Len(outcomes)
            /\ pc = "fetched"
            /\ html = NoHtml
            /\ Len(waits) = i - 1

C4_Witness ==
    /\ pc = "fetched"
    /\ outcomes = <<"dns">>
    /\ waits = <<>>

\* C5: a response with a status other than 200 is the last attempt for the
\* URL and no sleep follows it.
C5_HttpErrorTerminal ==
    \A i \in 1..Len(outcomes) :
        outcomes[i] = "http" =>
            /\ i = Len(outcomes)
            /\ pc = "fetched"
            /\ Len(waits) = i - 1

AllTransient(os) == \A i \in 1..Len(os) : os[i] = "transient"

\* C6: when every attempt for a URL ends in a connection failure or timeout,
\* fetch_html makes at most max_retries attempts, sleeps 2^k seconds after
\* the k-th failed attempt (strictly increasing sleeps), and every URL gets
\* its full max_retries attempts whatever happened to earlier URLs.
C6_RetryBackoff ==
    (InFetch /\ AllTransient(outcomes)) =>
        /\ Len(outcomes) <= max_retries
        /\ retries = Len(outcomes)
        /\ \A k \in 1..Len(waits) : waits[k] = 2 ^ k
        /\ \A k \in 1..(Len(waits) - 1) : waits[k] < waits[k + 1]
        /\ pc = "fetch" => Len(waits) = Len(outcomes)
        /\ pc = "sleep" => Len(waits) = Len(outcomes) - 1
        /\ pc = "fetched" =>
              /\ Len(outcomes) = max_retries
              /\ Len(waits) = max_retries - 1
              /\ html = NoHtml

\* the retries of a second URL are exhausted after an earlier URL of the
\* same crawl failed
C6_Witness ==
    /\ pc = "fetched"
    /\ AllTransient(outcomes)
    /\ Len(outcomes) = max_retries
    /\ waits = <<2, 4>>
    /\ failed # {}
    /\ Len(visit_log) >= 2

C7_State ==
    /\ InFetch => cur.url \in seen_urls
    /\ \A u \in failed :
          /\ u \in seen_urls
          /\ Count(visit_log, u) = 1
          /\ u \notin requeued

C7_Step ==
    (pc = "fetched" /\ html = NoHtml) =>
        /\ pc' = "loop"
        /\ queue' = queue
        /\ start_url' = start_url
        /\ results' = results

\* C7: a URL is marked visited before its fetch starts; a URL whose fetch
\* failed is never put on the queue again nor fetched again in that crawl,
\* and after the failure the loop goes on with the candidates still queued.
C7_FailedUrlDropped == [](C7_State) /\ [][C7_Step]_vars

\* after a failed fetch the next candidate is being fetched
C7_Witness ==
    /\ pc = "fetch"
    /\ \E i \in 1..(Len(visit_log) - 1) : visit_log[i] \in failed

\* the entries of the page results stored under url in the dict res
EntriesAt(res, url) == UNION { res[url][i].extracted_info : i \in DOMAIN res[url] }

\* C11: the result of one start URL holds one entry per unique (type,
\* value) across all the pages visited in that crawl: no entry is stored
\* under two pages of the dict that scrape returns.
C11_OneEntryPerCrawl ==
    \A u, v \in DOMAIN results :
        u # v => EntriesAt(results, u) \cap EntriesAt(results, v) = {}

(***************************************************************************)
(* Properties of link discovery and of the frontier.                       *)
(***************************************************************************)
\* the entries that link discovery has put on the queue
Discovered == { e \in BagToSet(queue) : e.depth > 0 }

\* the entry e is what enqueue_related_urls puts for some link of the site
\* found on a visited page, with the priority 100 - score
FromScoredLink(e) ==
    \E i \in site.links, base \in seen_urls :
        /\ ~UrlJoinRaises(LinkList[i].href)
        /\ UrlJoin(base, LinkList[i].href) = e.url
        /\ e.priority = 100 - calculate_relevance_score(LinkList[i], e.url)

\* C14: a discovered link whose relevance score is less than or equal to 0
\* is never put on the crawl queue: every discovered entry of the queue
\* comes from a link with a score above 0.
C14_NoIrrelevantLink ==
    \A e \in Discovered : FromScoredLink(e) /\ 100 - e.priority > 0

\* the link loop met a same-domain, unvisited link of score 0 and discovered
\* links are queued
C14_Witness ==
    /\ "score0" \in examined
    /\ Discovered # {}

C15_State == \A e \in Discovered : FromScoredLink(e)

C15_Step ==
    /\ (pc = "loop" /\ queue # EmptyBag) =>
          \E e \in BagToSet(queue) :
              /\ queue' = QueueRemove(queue, e)
              /\ \A f \in BagToSet(queue) : e.priority <= f.priority
              /\ pc' = "fetch" => cur' = e
    /\ pc = "fetched" =>
          \A e \in BagToSet(queue) : CopiesIn(e, queue') >= CopiesIn(e, queue)

\* C15: each pop returns a candidate whose priority number is the minimum
\* among all candidates queued at that moment; a discovered link's priority
\* is 100 minus its relevance score and queued entries are not altered.
C15_PopsMinimum == [](C15_State) /\ [][C15_Step]_vars

\* a discovered link is being fetched while a link of lower relevance waits
C15_Witness ==
    /\ pc = "fetch"
    /\ cur.depth > 0
    /\ \E f \in BagToSet(queue) : f.priority > cur.priority

\* the URL is what <a href="/team"> resolves to
IsTeam(u) == PathOf(u) = <<"/", "team">> /\ u.query = ""

\* the URL is what <a href="/privacy"> resolves to
IsPrivacy(u) == PathOf(u) = <<"/", "privacy">>

\* C16 as claimed: on a page with <a href="/team">Our Team</a> and
\* <a href="/privacy">Privacy</a>, /privacy is dropped with a score <= 0: it
\* is never on the queue and never fetched.
C16_PrivacyDropped ==
    /\ \A e \in BagToSet(queue) : ~IsPrivacy(e.url)
    /\ \A i \in 1..Len(visit_log) : ~IsPrivacy(visit_log[i])

\* C16 as amended: /team (keyword in path and text, score 10) is queued with
\* priority 90 and /privacy (no keyword, score 2 for its short path) with
\* priority 98, so /privacy is not dropped; it is fetched only when no /team
\* entry is left on the queue.
C16_TeamBeforePrivacy ==
    /\ \A e \in Discovered :
          /\ IsTeam(e.url) => e.priority = 90
          /\ IsPrivacy(e.url) => e.priority = 98
    /\ (InFetch /\ IsPrivacy(cur.url)) =>
          \A e \in BagToSet(queue) : ~IsTeam(e.url)

\* /privacy is being fetched right after /team, both found on the seed page
C16_Witness ==
    /\ pc = "fetch"
    /\ Len(visit_log) = 3
    /\ visit_log[1] = start_url
    /\ IsTeam(visit_log[2])
    /\ IsPrivacy(visit_log[3])
    /\ cur.depth = 1

\* identity of a URL by the data model: (domain, path) after lower-casing
Identity(u) == <<LowerTok(Netloc(u)), Lower(PathOf(u))>>

\* C17: URLs that differ only in scheme, query string or letter case are one
\* identity for the visited set: no two fetches of one crawl have the same
\* (domain, path).
C17_IdentityDedup ==
    \A i, j \in 1..Len(visit_log) :
        Identity(visit_log[i]) = Identity(visit_log[j]) => i = j

C18_State ==
    /\ \A e \in BagToSet(queue) :
          /\ e.depth \in 0..max_depth
          /\ e.depth = 0 => e = Entry(0, start_url, 0)
    /\ InFetch => cur.depth \in 0..max_depth

C18_Step ==
    /\ (pc = "main" /\ pc' = "loop") =>
          queue' = SetToBag({Entry(0, start_url', 0)})
    /\ pc = "fetched" =>
          \A e \in BagToSet(queue') :
              CopiesIn(e, queue') > CopiesIn(e, queue) =>
                  /\ e.depth = cur.depth + 1
                  /\ cur.depth < max_depth

\* C18: the seed is enqueued at depth 0, every discovered link at its
\* parent's depth plus 1, and no candidate with a depth above max_depth is
\* ever on the queue or fetched: the links of a page at depth max_depth are
\* not enqueued.
C18_DepthBound == [](C18_State) /\ [][C18_Step]_vars

\* the document of a page at depth max_depth has been fetched
C18_Witness ==
    /\ pc = "fetched"
    /\ Truthy(html)
    /\ cur.depth = max_depth

\* C19: link targets with a known binary/style/script extension and mailto:
\* links are discarded during link discovery: none is on the queue and none
\* is fetched.
C19_NonDocumentsDropped ==
    /\ \A e \in BagToSet(queue) : ~NonHtmlExtension(e.url) /\ ~IsMailto(e.url)
    /\ \A i \in 1..Len(visit_log) :
          ~NonHtmlExtension(visit_log[i]) /\ ~IsMailto(visit_log[i])

(***************************************************************************)
(* Properties of the batch driver main(urls).                              *)
(***************************************************************************)
C20_State ==
    /\ (pc = "loop" /\ start_url \in failed) => results = <<>> /\ queue = EmptyBag
    /\ pc \in {"main", "done"} =>
          /\ \A i \in 1..(idx - 1) : DefaultScheme(urls[i]) \in DOMAIN all_results
          /\ \A u \in raised_urls : all_results[u] = <<>>
    /\ pc = "done" => idx = Len(urls) + 1

C20_Step ==
    /\ pc = "raised" =>
          /\ all_results' = DictSet(all_results, start_url, <<>>)
          /\ idx' = idx + 1
          /\ pc' = "main"
    /\ (pc = "loop" /\ queue = EmptyBag) =>
          /\ all_results' = DictSet(all_results, start_url, results)
          /\ idx' = idx + 1
          /\ pc' = "main"
    /\ (pc = "main" /\ idx <= Len(urls)) =>
          /\ pc' = "loop"
          /\ start_url' = DefaultScheme(urls[idx])

\* C20: in a batch, a start URL whose crawl fails entirely, also by an
\* exception raised inside scrape, gets an empty result recorded under it,
\* and main goes on to crawl every remaining start URL of the batch.
C20_BatchIsolation == [](C20_State) /\ [][C20_Step]_vars

\* the crawl of the first start URL raised and the crawl of the second one
\* returned page results
C20_Witness ==
    /\ pc = "done"
    /\ Len(urls) = 2
    /\ DefaultScheme(urls[1]) \in raised_urls
    /\ all_results[DefaultScheme(urls[2])] # <<>>

(***************************************************************************)
(* Properties of ResultAggregator.aggregate, checked under SpecAgg.        *)
(***************************************************************************)
\* the (type, value) pairs of the facts that are aggregated
Pairs == { <<agg_in[i].type, agg_in[i].value>> :
             i \in { j \in 1..Len(agg_in) : Counted(agg_in[j]) } }

\* the confidences of the facts that contributed to a pair
ConfsOf(t, v) ==
    { agg_in[i].confidence :
        i \in { j \in 1..Len(agg_in) :
                  Counted(agg_in[j]) /\ agg_in[j].type = t /\ agg_in[j].value = v } }

MaxConf(t, v) == CHOOSE c \in ConfsOf(t, v) : \A d \in ConfsOf(t, v) : d <= c

RowsOf(t, v) == { i \in 1..Len(agg_out) : agg_out[i].type = t /\ agg_out[i].value = v }

OutRows == { agg_out[i] : i \in 1..Len(agg_out) }

\* C12: aggregate returns exactly one entry for every distinct (type, value)
\* pair of its input facts (the results it does not skip as malformed or as
\* the 'not_found' placeholder), pairs being compared by exact string
\* equality: values that differ only in letter case keep separate entries.
C12_ExactPairs ==
    apc = "done" =>
        /\ OutRows = { Row(pr[1], pr[2]) : pr \in Pairs }
        /\ Len(agg_out) = Cardinality(Pairs)

\* a value was handed over twice, and once more in another letter case
C12_Witness ==
    /\ apc = "done"
    /\ \E i, j, k \in 1..Len(agg_in) :
          /\ i # j
          /\ Counted(agg_in[i]) /\ Counted(agg_in[j]) /\ Counted(agg_in[k])
          /\ agg_in[i].type = agg_in[j].type /\ agg_in[i].value = agg_in[j].value
          /\ agg_in[k].type = agg_in[i].type
          /\ agg_in[k].value # agg_in[i].value
          /\ LowerTok(agg_in[k].value) = LowerTok(agg_in[i].value)
    /\ Len(agg_out) = 2

\* the rows aggregate returns for the list rs, as a set
AggregateSet(rs) ==
    LET agg == Aggregated(rs, <<>>)
    IN  UNION { { Row(k, v) : v \in agg[k] } : k \in DOMAIN agg }

\* C13: the aggregated result, taken as a set, does not depend on the order
\* in which the facts arrive: every permutation of the input gives the set
\* of entries that was returned.
C13_OrderIndependent ==
    apc = "done" =>
        \A p \in Perms(1..Len(agg_in)) :
            AggregateSet([i \in 1..Len(agg_in) |-> agg_in[p[i]]]) = OutRows

\* three different facts, two of one type, were aggregated
C13_Witness ==
    /\ apc = "done"
    /\ Len(agg_in) = 3
    /\ Cardinality(Pairs) = 3
    /\ Cardinality(OutRows) = 3

(***************************************************************************)
(* Properties of rate-limiter admission.                                   *)
(***************************************************************************)
\* C8: every page fetch is preceded by admission: the URL being fetched by
\* fetch_html, and the URL being downloaded by a rate_limited_download call,
\* has passed the global limiter and the limiter of its domain.
C8_AdmissionBeforeFetch ==
    /\ InFetch => cur.url \in admitted
    /\ \A w \in Workers : tasks[w].st = "download" => tasks[w].got \in admitted

\* C9: admission never fails or drops a request: no get_url call has taken a
\* URL from the queue without returning it to its caller.
C9_AdmissionNeverDrops == admission_failures = {}

(***************************************************************************)
(* Properties of extract_contact_info, checked under SpecExtract.          *)
(***************************************************************************)
\* the entries of type t among the rows of info
TypeFacts(info, t) == { f \in info : f.type = t }

\* the entries the promotion of the mailto: hrefs of a page gives
PromotedRows(page) ==
    { Row("email", AfterMailto(page.links[i].href)) :
        i \in { j \in 1..Len(page.links) : IsMailto(page.links[j].href) } }

\* extract_contact_info has returned for a document
Extracted == epc = "done" /\ ~ex_html.empty

\* C21: when one of the Email, Name, Phone and Title extractors raises on a
\* page, the page's result holds no fact that extractor found, and it holds
\* every fact of the other three that the result of the same page holds when
\* no extractor raises.
C21_FailureIsolated ==
    (Extracted /\ ex_raising \subseteq ExtractorNames) =>
        /\ \A x \in ex_raising :
             TypeFacts(ex_status.extracted_info, x) \subseteq PromotedRows(ex_html)
        /\ \A y \in ExtractorNames \ ex_raising :
             TypeFacts(ExtractedInfo(ex_html, {}), y)
                \subseteq ex_status.extracted_info

\* C22: once a document is extracted, the passes made over the page are the
\* Contextual strategy followed by Email, Name, Phone and Title, in this
\* order.
C22_RunsAllFour ==
    Extracted => ex_ran = <<"contextual", "email", "name", "phone", "title">>

\* the page holds <a href="mailto:jane@example.com">
HasMailtoJane(page) ==
    \E i \in 1..Len(page.links) : page.links[i].href = MailtoJane

WithHttpScheme(u) == IF u.scheme = "" THEN [u EXCEPT !.scheme = "http"] ELSE u

\* C24: a seed given without a scheme is crawled as http:// followed by the
\* seed and its result is recorded under that URL; a seed that carries a
\* scheme is crawled and recorded unchanged.
C24_SchemeDefaulted ==
    /\ pc \notin {"main", "done", "idle"} => start_url = WithHttpScheme(urls[idx])
    /\ \A i \in 1..Len(urls) : i < idx => WithHttpScheme(urls[i]) \in DOMAIN all_results

(***************************************************************************)
(* Termination of a crawl, checked under SpecLive.                         *)
(***************************************************************************)
\* the crawl of the i-th start URL is in its loop
Running(i) == idx = i /\ pc \in {"loop", "fetch", "sleep", "fetched"}

\* the loop of the i-th crawl finds the frontier empty, no fetch in flight
Drained(i) == idx = i /\ pc = "loop" /\ queue = EmptyBag

\* the exception of a malformed href has left the i-th scrape call
Raised(i) == idx = i /\ pc = "raised"

\* main has stored what it keeps of the i-th crawl and moved on
Stored(i) == idx > i /\ DefaultScheme(urls[i]) \in DOMAIN all_results

SameHostAndPath(a, b) ==
    /\ LowerTok(a.netloc) = LowerTok(b.netloc)
    /\ Lower(a.path) = Lower(b.path)

\* C26: two Url objects are equal, and have equal hashes, exactly when the
\* strings they were made from have the same lower-cased host and path,
\* whatever their scheme, query string and fragment; so Url('http://a.com'),
\* Url('https://a.com') and Url('https://a.com?q=1') are equal; equality is
\* reflexive, symmetric and transitive.
C26_UrlEquality ==
    upc = "done" =>
        /\ \A i, j \in 1..3 :
             /\ url_eq[i][j] <=> SameHostAndPath(url_in[i], url_in[j])
             /\ (url_hash[i] = url_hash[j]) <=> SameHostAndPath(url_in[i], url_in[j])
             /\ url_eq[i][j] => url_eq[j][i]
        /\ \A i \in 1..3 : url_eq[i][i]
        /\ \A i, j, k \in 1..3 : (url_eq[i][j] /\ url_eq[j][k]) => url_eq[i][k]
        /\ url_in = << MkUrlF("http", "a.com", <<>>, "", ""),
                       MkUrlF("https", "a.com", <<>>, "", ""),
                       MkUrlF("https", "a.com", <<>>, "q=1", "") >>
             => (url_eq[1][2] /\ url_eq[2][3])

\* the three URLs of the docstring have been compared, and so have a URL and
\* its upper-case variant with a fragment
C26_Witness ==
    /\ upc = "done"
    /\ url_in[1] = MkUrlF("http", "a.com", <<"/", "team">>, "", "")
    /\ url_in[2] = MkUrlF("HTTPS", "A.COM", <<"/", "Team">>, "", "top")
    /\ url_in[3] = MkUrlF("https", "a.com", <<>>, "q=1", "")
    /\ url_eq[1][2]
    /\ ~url_eq[2][3]

(***************************************************************************)
(* Properties of the schedulers, checked under SpecSched and               *)
(* SpecSchedLive.                                                          *)
(***************************************************************************)
\* C27: every link found in a downloaded page that has not been visited is
\* eventually admitted by the rate limiter for its download (all the URLs of
\* the model pass url_filter).
C27_LinksCrawled ==
    \A v \in SchedUrls :
        (v \in found_links /\ v \notin ds_visited) ~> (v \in admitted)

\* C28: when the budget test of the loop is about to drop a queued entry,
\* max_pages_per_domain pages of the domain of the start URL being crawled
\* have been visited: pages of other domains do not count.
C28_BudgetPerDomain ==
    (pc = "loop" /\ queue # EmptyBag /\ BudgetReached(seen_urls)) =>
        Cardinality(SeenOfDomain(Netloc(start_url))) >= max_pages_per_domain

\* C29: schedule() eventually ends, by its return after the last round or,
\* failing that, by an exception that leaves it.
C29_ScheduleReturns == <>(spc \in {"finished", "crashed"})

\* C30: the URL a rate_limited_download(u) call hands to
\* download_with_rate_limit is u.
C30_DownloadsRequested ==
    \A w \in Workers :
        tasks[w].st \in {"download", "done", "failed"} /\ tasks[w].got # NoUrl
            => tasks[w].got = tasks[w].u

====
